---- MODULE Spec2Model ----
\* A model of the Sudoku engine of 64one/sudoku: the validator
\* (sudoku_validator.py), the backtracking solver (sudoku_solver.py) and the
\* solution counter (sudoku_generator.py).  One run of the model is one call
\* of fill_board, count_solutions or is_valid_board on an input grid; the
\* recursion of the two searches is an explicit stack of frames, one frame
\* per active invocation.
EXTENDS Integers, Sequences, FiniteSets, TLC

VARIABLES
    board,            \* the grid the running call mutates in place
    empty_indicator,  \* the sentinel of this call
    limit,            \* count_solutions' limit argument
    op,               \* the function called at top level
    pc,               \* position of the running invocation
    stack,            \* one frame per active invocation, innermost last
    ret,              \* value returned by the invocation that returned last
    board0,           \* the grid as it was at entry of the top-level call
    args,             \* the arguments of the top-level call, where it has more
    gen,              \* generate's local variables
    self,             \* the fields of the SudokuBoard instance
    window            \* the MainWindow and its hint worker

vars ==
    <<board, empty_indicator, limit, op, pc, stack, ret, board0, args, gen,
      self, window>>

\* What the validator, the solver and the counter never touch.
session == <<args, gen, self, window>>

----------------------------------------------------------------------------
\* Program constants.

\* range(9): the side of the grid.
GridSize == 9

\* (row_index // 3) * 3: the side of a square.
SquareSize == 3

\* range(1, 10): the candidate values, tried in ascending order.
FirstValue == 1
LastValue == 9

Indices == 0 .. (GridSize - 1)

----------------------------------------------------------------------------
\* Bounds of the model and the input grids.

\* Number of cells of HoleList that an input grid may have cleared.
MaxHoles == 7

\* The largest limit handed to count_solutions.
MaxLimit == 2

\* The legal complete grid the tests use (solved_board / valid_board).
SolvedRows ==
    << <<5, 3, 4, 6, 7, 8, 9, 1, 2>>,
       <<6, 7, 2, 1, 9, 5, 3, 4, 8>>,
       <<1, 9, 8, 3, 4, 2, 5, 6, 7>>,
       <<8, 5, 9, 7, 6, 1, 4, 2, 3>>,
       <<4, 2, 6, 8, 5, 3, 7, 9, 1>>,
       <<7, 1, 3, 9, 2, 4, 8, 5, 6>>,
       <<9, 6, 1, 5, 3, 7, 2, 8, 4>>,
       <<2, 8, 7, 4, 1, 9, 6, 3, 5>>,
       <<3, 4, 5, 2, 8, 6, 1, 7, 9>> >>

solved_board == [r \in Indices |-> [c \in Indices |-> SolvedRows[r + 1][c + 1]]]

\* Cells an input may have cleared.  The first four are a rectangle whose two
\* values can be swapped (two completions); all seven cleared give three
\* completions, the first candidate of the first empty cell leading to one of
\* them and the second candidate to two.
HoleList ==
    << <<2, 4>>, <<2, 5>>, <<5, 4>>, <<5, 5>>, <<5, 3>>, <<7, 3>>, <<7, 5>>,
       <<8, 8>>, <<0, 0>> >>

HoleSet == {HoleList[i] : i \in 1 .. MaxHoles}

\* A cell of the input that is overwritten after clearing: <<row, col, value>>.
\* <<2, 4, 2>> repeats the 2 of (2, 5) in row 2 and square 1 and the 2 of
\* (5, 4) in column 4, unless those are cleared.  <<7, 3, 9>> repeats the 9 of
\* (7, 5) and of (5, 3) unless those are cleared; with both cleared and
\* (5, 5) kept the givens are legal and the grid has no completion.
NoOverwrite == <<>>
Overwrites == {NoOverwrite, <<2, 4, 2>>, <<7, 3, 9>>}

EmptyIndicators == {0, -1}

Limits == 0 .. MaxLimit

Ops == {"fill_board", "count_solutions", "is_valid_board"}

\* The value of a variable that the running call does not use.
NoRecord == <<>>

\* The input grid: solved_board with `holes` cleared and `ow` written.
InputBoard(holes, ow, e) ==
    [r \in Indices |-> [c \in Indices |->
        IF ow # NoOverwrite /\ ow[1] = r /\ ow[2] = c THEN ow[3]
        ELSE IF <<r, c>> \in holes THEN e
        ELSE solved_board[r][c]]]

----------------------------------------------------------------------------
\* sudoku_validator.py

\* `value in lst` on a list.
In(value, lst) == \E i \in 1 .. Len(lst) : lst[i] = value

\* Python's lst[i] on a list of GridSize items: a negative index counts from
\* the end, and an index outside -GridSize .. GridSize - 1 raises IndexError.
in_index_range(i) == -GridSize <= i /\ i < GridSize

item(lst, i) == lst[i % GridSize]

\* The values of the square containing (row_index, col_index), row by row:
\* board[y + i][x: x + 3] for i in range(3).  For indices in 0 .. 8 they are
\* the 9 values of the square.  For a column index in -3 .. -1 the slice is
\* [-3: 0], which is empty; for one in -9 .. -4 it is [-9: -6] or [-6: -3],
\* the columns 0 .. 2 or 3 .. 5.
get_values_in_square(b, row_index, col_index) ==
    LET y == (row_index \div SquareSize) * SquareSize
        x == (col_index \div SquareSize) * SquareSize
    IN  IF x = -SquareSize THEN <<>>
        ELSE [i \in 1 .. (SquareSize * SquareSize) |->
                 item(item(b, y + ((i - 1) \div SquareSize)),
                      x + ((i - 1) % SquareSize))]

\* is_valid_entry with the column left out of the test.
is_valid_entry_no_column(b, row_index, col_index, value) ==
    LET row == [i \in 1 .. GridSize |-> item(b, row_index)[i - 1]]
        square == get_values_in_square(b, row_index, col_index)
    IN  ~In(value, row \o square)

\* is_valid_entry with the row left out of the test.
is_valid_entry_no_row(b, row_index, col_index, value) ==
    LET column == [i \in 1 .. GridSize |-> item(b[i - 1], col_index)]
        square == get_values_in_square(b, row_index, col_index)
    IN  ~In(value, column \o square)

\* The value is_valid_entry returns when it raises nothing.
is_valid_entry(b, row_index, col_index, value) ==
    LET column == [i \in 1 .. GridSize |-> item(b[i - 1], col_index)]
        row == [i \in 1 .. GridSize |-> item(b, row_index)[i - 1]]
        square == get_values_in_square(b, row_index, col_index)
    IN  ~In(value, column \o row \o square)

\* is_valid_entry raises IndexError: row[col_index] of line 49 or
\* board[row_index] of line 50 is out of range.  (With both in range, so are
\* the rows board[y + i] of get_values_in_square, and a slice never raises.)
is_valid_entry_raises(row_index, col_index) ==
    ~in_index_range(col_index) \/ ~in_index_range(row_index)

----------------------------------------------------------------------------
\* sudoku_solver.py

\* The empty tuple () returned when no cell is empty.
NoCell == <<>>

\* The first empty cell in row-major order, or ().
get_empty(b, e) ==
    LET empties == {k \in 0 .. (GridSize * GridSize - 1) :
                        b[k \div GridSize][k % GridSize] = e}
    IN  IF empties = {} THEN NoCell
        ELSE LET k == CHOOSE k \in empties : \A j \in empties : k <= j
             IN  <<k \div GridSize, k % GridSize>>

----------------------------------------------------------------------------
\* Frames and the call stack.

Frame(cell, value) == [cell |-> cell, value |-> value, count |-> 0]

Top == stack[Len(stack)]

Pop == SubSeq(stack, 1, Len(stack) - 1)

SetTop(f) == [stack EXCEPT ![Len(stack)] = f]

Put(b, cell, v) == [b EXCEPT ![cell[1]][cell[2]] = v]

----------------------------------------------------------------------------
\* fill_board

\* fill_board is running, as the top-level call or as the call made by
\* generate (whose own positions are none of call, body and return).
fill_board_running == op = "fill_board" \/ op = "generate"

\* Entry of an invocation: empty_cell = get_empty(board, empty_indicator).
fill_board_call ==
    /\ fill_board_running
    /\ pc = "call"
    /\ stack' = Append(stack, Frame(get_empty(board, empty_indicator), FirstValue))
    /\ pc' = "body"
    /\ UNCHANGED <<board, empty_indicator, limit, op, ret, board0>>
    /\ UNCHANGED session

\* if empty_cell == (): return True
fill_board_complete ==
    /\ fill_board_running
    /\ pc = "body"
    /\ Top.cell = NoCell
    /\ stack' = Pop
    /\ ret' = TRUE
    /\ pc' = "return"
    /\ UNCHANGED <<board, empty_indicator, limit, op, board0>>
    /\ UNCHANGED session

\* fill_board_try that recurses without writing the value into the cell.
fill_board_try_no_place ==
    /\ fill_board_running
    /\ pc = "body"
    /\ Top.cell # NoCell
    /\ Top.value <= LastValue
    /\ IF is_valid_entry(board, Top.cell[1], Top.cell[2], Top.value)
       THEN /\ pc' = "call"
            /\ UNCHANGED <<board, stack>>
       ELSE /\ stack' = SetTop([Top EXCEPT !.value = @ + 1])
            /\ UNCHANGED <<board, pc>>
    /\ UNCHANGED <<empty_indicator, limit, op, ret, board0>>
    /\ UNCHANGED session

\* fill_board_try as `for value in range(9, 0, -1)`: the k-th candidate is
\* the k-th digit from the top.
fill_board_try_descending ==
    /\ fill_board_running
    /\ pc = "body"
    /\ Top.cell # NoCell
    /\ Top.value <= LastValue
    /\ LET value == LastValue + FirstValue - Top.value
       IN  IF is_valid_entry(board, Top.cell[1], Top.cell[2], value)
           THEN /\ board' = Put(board, Top.cell, value)
                /\ pc' = "call"
                /\ UNCHANGED stack
           ELSE /\ stack' = SetTop([Top EXCEPT !.value = @ + 1])
                /\ UNCHANGED <<board, pc>>
    /\ UNCHANGED <<empty_indicator, limit, op, ret, board0>>
    /\ UNCHANGED session

\* One iteration of `for value in range(1, 10)` up to the recursive call.
fill_board_try ==
    /\ fill_board_running
    /\ pc = "body"
    /\ Top.cell # NoCell
    /\ Top.value <= LastValue
    /\ IF is_valid_entry(board, Top.cell[1], Top.cell[2], Top.value)
       THEN /\ board' = Put(board, Top.cell, Top.value)
            /\ pc' = "call"
            /\ UNCHANGED stack
       ELSE /\ stack' = SetTop([Top EXCEPT !.value = @ + 1])
            /\ UNCHANGED <<board, pc>>
    /\ UNCHANGED <<empty_indicator, limit, op, ret, board0>>
    /\ UNCHANGED session

\* The else branch of the for loop: return False.
fill_board_exhausted ==
    /\ fill_board_running
    /\ pc = "body"
    /\ Top.cell # NoCell
    /\ Top.value > LastValue
    /\ stack' = Pop
    /\ ret' = FALSE
    /\ pc' = "return"
    /\ UNCHANGED <<board, empty_indicator, limit, op, board0>>
    /\ UNCHANGED session

\* fill_board_resume as `return fill_board(board, empty_indicator)`: a failed
\* recursive call ends the invocation instead of trying the next candidate.
fill_board_resume_no_retry ==
    /\ fill_board_running
    /\ pc = "return"
    /\ stack # <<>>
    /\ stack' = Pop
    /\ board' = IF ret THEN board ELSE Put(board, Top.cell, empty_indicator)
    /\ UNCHANGED <<empty_indicator, limit, op, pc, ret, board0>>
    /\ UNCHANGED session

\* fill_board_resume without the restore of the cell after a failed call.
fill_board_resume_no_restore ==
    /\ fill_board_running
    /\ pc = "return"
    /\ stack # <<>>
    /\ IF ret
       THEN /\ stack' = Pop
            /\ UNCHANGED <<board, pc>>
       ELSE /\ stack' = SetTop([Top EXCEPT !.value = @ + 1])
            /\ pc' = "body"
            /\ UNCHANGED board
    /\ UNCHANGED <<empty_indicator, limit, op, ret, board0>>
    /\ UNCHANGED session

\* The recursive call returned to the invocation on top of the stack:
\* `if fill_board(...): return True`, else restore the cell and go on.
fill_board_resume ==
    /\ fill_board_running
    /\ pc = "return"
    /\ stack # <<>>
    /\ IF ret
       THEN /\ stack' = Pop
            /\ UNCHANGED <<board, pc>>
       ELSE /\ board' = Put(board, Top.cell, empty_indicator)
            /\ stack' = SetTop([Top EXCEPT !.value = @ + 1])
            /\ pc' = "body"
    /\ UNCHANGED <<empty_indicator, limit, op, ret, board0>>
    /\ UNCHANGED session

----------------------------------------------------------------------------
\* count_solutions (sudoku_generator.py)

\* Entry of an invocation: empty_cell = get_empty(...); count = 0.
count_solutions_call ==
    /\ op = "count_solutions"
    /\ pc = "call"
    /\ stack' = Append(stack, Frame(get_empty(board, empty_indicator), FirstValue))
    /\ pc' = "body"
    /\ UNCHANGED <<board, empty_indicator, limit, op, ret, board0>>
    /\ UNCHANGED session

\* if not empty_cell: return 1
count_solutions_complete ==
    /\ op = "count_solutions"
    /\ pc = "body"
    /\ Top.cell = NoCell
    /\ stack' = Pop
    /\ ret' = 1
    /\ pc' = "return"
    /\ UNCHANGED <<board, empty_indicator, limit, op, board0>>
    /\ UNCHANGED session

\* One iteration of `for num in range(1, 10)` up to the recursive call.
count_solutions_try ==
    /\ op = "count_solutions"
    /\ pc = "body"
    /\ Top.cell # NoCell
    /\ Top.value <= LastValue
    /\ IF is_valid_entry(board, Top.cell[1], Top.cell[2], Top.value)
       THEN /\ board' = Put(board, Top.cell, Top.value)
            /\ pc' = "call"
            /\ UNCHANGED stack
       ELSE /\ stack' = SetTop([Top EXCEPT !.value = @ + 1])
            /\ UNCHANGED <<board, pc>>
    /\ UNCHANGED <<empty_indicator, limit, op, ret, board0>>
    /\ UNCHANGED session

\* count_solutions_after as `count = r`: the result of the last recursive
\* call replaces the count instead of being added to it.
count_solutions_after_last_only(f, r, lim) ==
    [frame |-> [f EXCEPT !.count = r, !.value = @ + 1],
     pc |-> IF r >= lim THEN "break" ELSE "body"]

\* The frame and position after the recursive call returned r to frame f:
\* count += r, then `if count >= limit: break`.
count_solutions_after(f, r, lim) ==
    LET count == f.count + r
    IN  [frame |-> [f EXCEPT !.count = count, !.value = @ + 1],
         pc |-> IF count >= lim THEN "break" ELSE "body"]

\* count_solutions_resume with the break taken before the cell is restored.
count_solutions_resume_break_first ==
    /\ op = "count_solutions"
    /\ pc = "return"
    /\ stack # <<>>
    /\ LET after == count_solutions_after(Top, ret, limit)
       IN  /\ board' = IF after.pc = "break" THEN board
                       ELSE Put(board, Top.cell, empty_indicator)
           /\ stack' = SetTop(after.frame)
           /\ pc' = after.pc
    /\ UNCHANGED <<empty_indicator, limit, op, ret, board0>>
    /\ UNCHANGED session

\* The recursive call returned: add its result, restore the cell, and leave
\* the loop when the count has reached the limit.
count_solutions_resume ==
    /\ op = "count_solutions"
    /\ pc = "return"
    /\ stack # <<>>
    /\ LET after == count_solutions_after(Top, ret, limit)
       IN  /\ board' = Put(board, Top.cell, empty_indicator)
           /\ stack' = SetTop(after.frame)
           /\ pc' = after.pc
    /\ UNCHANGED <<empty_indicator, limit, op, ret, board0>>
    /\ UNCHANGED session

\* return count, after the loop ran out of candidates or was left by break.
count_solutions_return ==
    /\ op = "count_solutions"
    /\ \/ pc = "break"
       \/ pc = "body" /\ Top.cell # NoCell /\ Top.value > LastValue
    /\ stack' = Pop
    /\ ret' = Top.count
    /\ pc' = "return"
    /\ UNCHANGED <<board, empty_indicator, limit, op, board0>>
    /\ UNCHANGED session

----------------------------------------------------------------------------
\* is_valid_board (sudoku_validator.py).  The single frame holds the loop
\* variables (row, col) in `cell`; the shape test of line 75 always passes on
\* the grids of this model, which are 9 x 9.

\* The cell after (row, col) in `for row in range(9): for col in range(9)`.
next_cell(cell) ==
    IF cell[2] + 1 < GridSize THEN <<cell[1], cell[2] + 1>>
    ELSE <<cell[1] + 1, 0>>

is_valid_board_call ==
    /\ op = "is_valid_board"
    /\ pc = "call"
    /\ stack' = Append(stack, Frame(<<0, 0>>, 0))
    /\ pc' = "body"
    /\ UNCHANGED <<board, empty_indicator, limit, op, ret, board0>>
    /\ UNCHANGED session

\* is_valid_board_body that tests the value without blanking its own cell.
is_valid_board_body_no_blank(b, cell, e) ==
    LET value == b[cell[1]][cell[2]]
    IN  IF value = e THEN [board |-> b, ok |-> TRUE]
        ELSE IF ~is_valid_entry(b, cell[1], cell[2], value)
             THEN [board |-> b, ok |-> FALSE]
             ELSE [board |-> b, ok |-> TRUE]

\* The grid and outcome of one loop body on (row, col): ok = FALSE is the
\* `return False` of line 89.
is_valid_board_body(b, cell, e) ==
    LET value == b[cell[1]][cell[2]]
        blanked == Put(b, cell, e)
    IN  IF value = e THEN [board |-> b, ok |-> TRUE]
        ELSE IF ~is_valid_entry(blanked, cell[1], cell[2], value)
             THEN [board |-> blanked, ok |-> FALSE]
             ELSE [board |-> Put(blanked, cell, value), ok |-> TRUE]

is_valid_board_cell ==
    /\ op = "is_valid_board"
    /\ pc = "body"
    /\ Top.cell[1] < GridSize
    /\ LET out == is_valid_board_body(board, Top.cell, empty_indicator)
       IN  /\ board' = out.board
           /\ IF out.ok
              THEN /\ stack' = SetTop([Top EXCEPT !.cell = next_cell(@)])
                   /\ UNCHANGED <<pc, ret>>
              ELSE /\ stack' = Pop
                   /\ ret' = FALSE
                   /\ pc' = "return"
    /\ UNCHANGED <<empty_indicator, limit, op, board0>>
    /\ UNCHANGED session

\* The else branch of the outer loop: return True.
is_valid_board_pass ==
    /\ op = "is_valid_board"
    /\ pc = "body"
    /\ Top.cell[1] >= GridSize
    /\ stack' = Pop
    /\ ret' = TRUE
    /\ pc' = "return"
    /\ UNCHANGED <<board, empty_indicator, limit, op, board0>>
    /\ UNCHANGED session

----------------------------------------------------------------------------
\* The top-level call has returned to its caller.
finish ==
    /\ pc = "return"
    /\ stack = <<>>
    /\ pc' = "done"
    /\ UNCHANGED <<board, empty_indicator, limit, op, stack, ret, board0>>
    /\ UNCHANGED session

----------------------------------------------------------------------------
\* What ret holds before any invocation has returned: a value of the type of
\* the call's result, which nothing reads.
NoResult(o) == IF o = "count_solutions" THEN 0 ELSE FALSE

Init ==
    \E holes \in SUBSET HoleSet, ow \in Overwrites,
       e \in EmptyIndicators, o \in Ops, l \in Limits :
        /\ board = InputBoard(holes, ow, e)
        /\ board0 = board
        /\ empty_indicator = e
        /\ op = o
        /\ limit = IF o = "count_solutions" THEN l ELSE MaxLimit
        /\ pc = "call"
        /\ stack = <<>>
        /\ ret = NoResult(o)
        /\ args = NoRecord
        /\ gen = NoRecord
        /\ window = NoRecord
        /\ self = NoRecord

Next ==
    \/ fill_board_call
    \/ fill_board_complete
    \/ fill_board_try
    \/ fill_board_exhausted
    \/ fill_board_resume
    \/ count_solutions_call
    \/ count_solutions_complete
    \/ count_solutions_try
    \/ count_solutions_resume
    \/ count_solutions_return
    \/ is_valid_board_call
    \/ is_valid_board_cell
    \/ is_valid_board_pass
    \/ finish

Spec == Init /\ [][Next]_vars

----------------------------------------------------------------------------
\* What the claims speak of, stated without reference to the searches.

Cells == Indices \X Indices

Digits == FirstValue .. LastValue

At(b, p) == b[p[1]][p[2]]

SquareOf(p) == <<p[1] \div SquareSize, p[2] \div SquareSize>>

\* The 27 rows, columns and squares, as sets of cells.
Units ==
    {{p \in Cells : p[1] = r} : r \in Indices}
        \cup {{p \in Cells : p[2] = c} : c \in Indices}
        \cup {{p \in Cells : SquareOf(p) = SquareOf(q)} : q \in Cells}

\* No row, column or square holds the same non-sentinel value twice.
NoRepeats(b, e) ==
    \A u \in Units : \A p, q \in u :
        (p # q /\ At(b, p) # e /\ At(b, q) # e) => At(b, p) # At(b, q)

EmptyCells(b, e) == {p \in Cells : At(b, p) = e}

Peers(p) == {q \in Cells : q # p /\ \E u \in Units : p \in u /\ q \in u}

\* All grids that fill the cells of `todo`, each from its set in `cand`.
RECURSIVE Fillings(_, _, _)
Fillings(b, todo, cand) ==
    IF todo = {} THEN {b}
    ELSE LET p == CHOOSE p \in todo : TRUE
         IN  UNION {Fillings(Put(b, p, v), todo \ {p}, cand) : v \in cand[p]}

\* The legal completions of b: the grids that give every empty cell a digit,
\* keep every other cell, and repeat no value in any row, column or square.
\* A digit that a given of the cell's row, column or square already holds
\* cannot appear in a legal completion, so only the others are enumerated.
Completions(b, e) ==
    LET todo == EmptyCells(b, e)
        cand == [p \in todo |->
                    {v \in Digits : \A q \in Peers(p) : At(b, q) # v}]
    IN  {g \in Fillings(b, todo, cand) : NoRepeats(g, e)}

\* Some row holds the same non-sentinel value twice.
RowDuplicate(b, e) ==
    \E r \in Indices : \E c1, c2 \in Indices :
        c1 # c2 /\ b[r][c1] # e /\ b[r][c1] = b[r][c2]

\* The top-level call of o has returned.
Returned(o) == pc = "done" /\ op = o

----------------------------------------------------------------------------
\* C1: for every grid and every limit >= 1, count_solutions(grid, limit)
\* returns a value no greater than limit.
C1_CountAtMostLimit ==
    (Returned("count_solutions") /\ limit >= 1) => ret <= limit

\* C2: count_solutions(grid, 2) returns 1 if and only if the grid has exactly
\* one legal completion, for every grid, conflicting givens included.
C2_OneIffUnique ==
    (Returned("count_solutions") /\ limit = 2) =>
        (ret = 1 <=> Cardinality(Completions(board0, empty_indicator)) = 1)

\* C3: on return from count_solutions the grid equals the grid at entry, for
\* any grid and limit, also when the loop was left because the count reached
\* the limit.
C3_CountRestoresGrid ==
    Returned("count_solutions") => board = board0

\* C3 witness: a call on a grid with an empty cell returned a count that
\* reached its limit, so its loop was left by break.
C3_Witness ==
    /\ Returned("count_solutions")
    /\ EmptyCells(board0, empty_indicator) # {}
    /\ limit >= 1
    /\ ret >= limit
    /\ board = board0

\* C4: on a grid that has a legal completion (a legal complete grid with any
\* set of cells cleared) fill_board returns true, the result has no empty
\* cell and no repeated value, every cell non-empty at entry keeps its value,
\* and a grid without empty cell is returned unchanged.
C4_FillSolvesCleared ==
    (Returned("fill_board") /\ Completions(board0, empty_indicator) # {}) =>
        /\ ret = TRUE
        /\ EmptyCells(board, empty_indicator) = {}
        /\ NoRepeats(board, empty_indicator)
        /\ \A p \in Cells :
               At(board0, p) # empty_indicator => At(board, p) = At(board0, p)
        /\ EmptyCells(board0, empty_indicator) = {} => board = board0

\* C4 witness: fill_board has completed a grid that had all the cells of the
\* swappable rectangle cleared.
C4_Witness ==
    /\ Returned("fill_board")
    /\ Completions(board0, empty_indicator) # {}
    /\ Cardinality(EmptyCells(board0, empty_indicator)) >= 4
    /\ ret = TRUE
    /\ EmptyCells(board, empty_indicator) = {}

\* C5: on a grid with two identical non-empty values in one row fill_board
\* returns false and the grid on return equals the grid at entry.
C5_RowDuplicateFails ==
    (Returned("fill_board") /\ RowDuplicate(board0, empty_indicator)) =>
        (ret = FALSE /\ board = board0)

\* C6: on a grid whose non-empty cells repeat no value, fill_board returns
\* true if and only if the grid has a legal completion, and when it returns
\* true the grid it leaves is one.
C6_FillTrueIffCompletable ==
    (Returned("fill_board") /\ NoRepeats(board0, empty_indicator)) =>
        LET completions == Completions(board0, empty_indicator)
        IN  /\ ret = TRUE <=> completions # {}
            /\ ret = TRUE => board \in completions

\* C6 witness: fill_board reported failure on a grid with legal givens,
\* empty cells and no completion.
C6_Witness ==
    /\ Returned("fill_board")
    /\ NoRepeats(board0, empty_indicator)
    /\ Cardinality(EmptyCells(board0, empty_indicator)) >= 3
    /\ ret = FALSE

\* C7: whenever fill_board returns false, for any input grid, the grid on
\* return is cell for cell the grid at entry.
C7_FailedFillRestoresGrid ==
    (Returned("fill_board") /\ ret = FALSE) => board = board0

\* C9: is_valid_board returns true if and only if no row, column or square
\* holds the same non-sentinel value twice.
C9_ValidIffNoRepeats ==
    Returned("is_valid_board") =>
        (ret = TRUE <=> NoRepeats(board0, empty_indicator))

\* C9 witness: is_valid_board rejected a grid with empty cells whose only
\* repeated value is in a column.
C9_Witness ==
    /\ Returned("is_valid_board")
    /\ ret = FALSE
    /\ EmptyCells(board0, empty_indicator) # {}
    /\ ~RowDuplicate(board0, empty_indicator)

\* C10: is_valid_board leaves the grid unchanged on return, whether it
\* returns true or false.
C10_ValidatorLeavesGrid ==
    Returned("is_valid_board") => board = board0

----------------------------------------------------------------------------
\* fill_board alone, run to its end: the interpreter executes the next
\* statement of the call as long as there is one.
InitFill == Init /\ op = "fill_board"

NextFill ==
    \/ fill_board_call
    \/ fill_board_complete
    \/ fill_board_try
    \/ fill_board_exhausted
    \/ fill_board_resume
    \/ finish

FairFill == InitFill /\ [][NextFill]_vars /\ WF_vars(NextFill)

\* Number of invocations on the stack that have a value of theirs in the grid:
\* all of them, but the innermost while it is still choosing.
Placed == IF pc = "body" THEN Len(stack) - 1 ELSE Len(stack)

\* C7 witness: fill_board returned false after at least one placement: the
\* first empty cell of the input had a candidate that passed is_valid_entry.
C7_Witness ==
    /\ Returned("fill_board")
    /\ ret = FALSE
    /\ board = board0
    /\ LET cell == get_empty(board0, empty_indicator)
       IN  /\ cell # NoCell
           /\ \E v \in Digits : is_valid_entry(board0, cell[1], cell[2], v)

\* C8: fill_board terminates on every grid with a boolean result; every
\* invocation below the top one was called after one more empty cell was
\* filled, so the recursion depth never exceeds the number of cells empty at
\* entry.
C8_FillTerminates ==
    /\ [](pc \in {"call", "body"} =>
            /\ Cardinality(EmptyCells(board, empty_indicator))
                 = Cardinality(EmptyCells(board0, empty_indicator)) - Placed
            /\ Len(stack) - 1 <= Cardinality(EmptyCells(board0, empty_indicator)))
    /\ <>(pc = "done" /\ ret \in BOOLEAN)

\* C8 witness: the recursion is as deep as the input has empty cells, seven
\* or more, and the innermost invocation finds the grid full.
C8_Witness ==
    /\ op = "fill_board"
    /\ pc = "body"
    /\ Top.cell = NoCell
    /\ Len(stack) - 1 = Cardinality(EmptyCells(board0, empty_indicator))
    /\ Len(stack) - 1 >= 7

----------------------------------------------------------------------------
\* One call of is_valid_entry(board, row_index, col_index, value).

\* How far beyond the grid the index arguments of the model reach.
MaxBeyond == 1

IndexArgs == (0 - GridSize - MaxBeyond) .. (GridSize - 1 + MaxBeyond)

\* The digits and the sentinels.
ValueArgs == (FirstValue .. LastValue) \cup EmptyIndicators

InitEntry ==
    \E holes \in {{}, HoleSet}, ow \in Overwrites, e \in EmptyIndicators,
       row_index \in IndexArgs, col_index \in IndexArgs, value \in ValueArgs :
        /\ board = InputBoard(holes, ow, e)
        /\ board0 = board
        /\ empty_indicator = e
        /\ op = "is_valid_entry"
        /\ args = [row_index |-> row_index, col_index |-> col_index,
                   value |-> value]
        /\ limit = MaxLimit
        /\ pc = "call"
        /\ stack = <<>>
        /\ ret = "none"
        /\ gen = NoRecord
        /\ window = NoRecord
        /\ self = NoRecord

\* The call returns True or False.
is_valid_entry_return ==
    /\ op = "is_valid_entry"
    /\ pc = "call"
    /\ ~is_valid_entry_raises(args.row_index, args.col_index)
    /\ ret' = is_valid_entry(board, args.row_index, args.col_index, args.value)
    /\ pc' = "done"
    /\ UNCHANGED <<board, empty_indicator, limit, op, stack, board0, session>>

\* The call raises IndexError.
is_valid_entry_raise ==
    /\ op = "is_valid_entry"
    /\ pc = "call"
    /\ is_valid_entry_raises(args.row_index, args.col_index)
    /\ ret' = "IndexError"
    /\ pc' = "raised"
    /\ UNCHANGED <<board, empty_indicator, limit, op, stack, board0, session>>

NextEntry ==
    \/ is_valid_entry_return
    \/ is_valid_entry_raise

EntrySpec == InitEntry /\ [][NextEntry]_vars

\* The call of is_valid_entry has ended, by return or by raise.
EntryEnded == op = "is_valid_entry" /\ pc # "call"

EntryInRange == args.row_index \in Indices /\ args.col_index \in Indices

\* C11: for an in-range cell, is_valid_entry returns true if and only if the
\* value equals no cell of the row, the column or the square of the cell, the
\* cell itself included; the grid is not modified.
C11_EntryIffAbsent ==
    (EntryEnded /\ EntryInRange) =>
        LET target == <<args.row_index, args.col_index>>
        IN  /\ pc = "done"
            /\ ret = (\A q \in Cells :
                        (\/ q[1] = target[1]
                         \/ q[2] = target[2]
                         \/ SquareOf(q) = SquareOf(target))
                            => At(board0, q) # args.value)
            /\ board = board0

\* C11 witness: the call returned false for a value that, in the row, column
\* and square of the target cell, only the target cell itself holds.
C11_Witness ==
    /\ EntryEnded
    /\ EntryInRange
    /\ ret = FALSE
    /\ LET target == <<args.row_index, args.col_index>>
       IN  /\ At(board0, target) = args.value
           /\ \A q \in Peers(target) : At(board0, q) # args.value

\* C12: for every row or column index outside 0 .. 8, below 0 or above 8,
\* is_valid_entry raises an out-of-range error instead of returning a boolean.
C12_OutOfRangeRaises ==
    (EntryEnded /\ ~EntryInRange) => (pc = "raised" /\ ret = "IndexError")

----------------------------------------------------------------------------
\* fill_board and count_solutions as the functions their callers use: the
\* same searches as the step actions above, run from call to return.

RECURSIVE fill_board(_, _), fill_board_loop(_, _, _, _)

\* [ok |-> the value returned, board |-> the grid as the call leaves it].
fill_board(b, e) ==
    LET empty_cell == get_empty(b, e)
    IN  IF empty_cell = NoCell THEN [ok |-> TRUE, board |-> b]
        ELSE fill_board_loop(b, e, empty_cell, FirstValue)

\* The recursive call returned r: return True, or restore the cell and go on.
fill_board_after(r, e, cell, value) ==
    IF r.ok THEN r
    ELSE fill_board_loop(Put(r.board, cell, e), e, cell, value + 1)

\* The for loop of fill_board from candidate `value` on.
fill_board_loop(b, e, cell, value) ==
    IF value > LastValue THEN [ok |-> FALSE, board |-> b]
    ELSE IF is_valid_entry(b, cell[1], cell[2], value)
         THEN fill_board_after(fill_board(Put(b, cell, value), e),
                               e, cell, value)
         ELSE fill_board_loop(b, e, cell, value + 1)

RECURSIVE count_solutions(_, _, _), count_solutions_loop(_, _, _, _, _, _)

\* The value count_solutions returns (the grid is restored on return).
count_solutions(b, lim, e) ==
    LET empty_cell == get_empty(b, e)
    IN  IF empty_cell = NoCell THEN 1
        ELSE count_solutions_loop(b, lim, e, empty_cell, FirstValue, 0)

\* `if count >= limit: break`, after the recursive call added to count.
count_solutions_break(b, lim, e, cell, num, count) ==
    IF count >= lim THEN count
    ELSE count_solutions_loop(b, lim, e, cell, num + 1, count)

\* The for loop of count_solutions from candidate `num` on.
count_solutions_loop(b, lim, e, cell, num, count) ==
    IF num > LastValue THEN count
    ELSE IF is_valid_entry(b, cell[1], cell[2], num)
         THEN count_solutions_break(b, lim, e, cell, num,
                  count + count_solutions(Put(b, cell, num), lim, e))
         ELSE count_solutions_loop(b, lim, e, cell, num + 1, count)

\* The two forms of each search agree on every input of Spec.
SearchFormsAgree ==
    /\ Returned("fill_board") =>
           fill_board(board0, empty_indicator) = [ok |-> ret, board |-> board]
    /\ Returned("count_solutions") =>
           count_solutions(board0, limit, empty_indicator) = ret

----------------------------------------------------------------------------
\* generate and _create_unique_board

\* Bounds on the random picks of carving: they fall on the first MaxPicks
\* cells of PickList, and in _create_unique_board only the first MaxFreePicks
\* picks are free; every later pick is cell (0, 0), the cell that the mocked
\* randint of test_create_unique_board_max_attempts always returns.
MaxPicks == 5

MaxFreePicks == 5

\* Cells 2 to 5 are the corners of a rectangle over two squares that holds
\* the same two digits on both diagonals in the solution of every seed of
\* Seeds: with all four cleared the puzzle has two solutions.
PickList ==
    <<<<0, 0>>, <<1, 7>>, <<1, 8>>, <<3, 7>>, <<3, 8>>, <<5, 0>>, <<5, 1>>>>

PickCells == {PickList[i] : i \in 1 .. MaxPicks}

\* The cells the pick of iteration number `attempts` can be.
UniquePickCells(attempts) ==
    IF attempts < MaxFreePicks THEN PickCells ELSE {PickList[1]}

\* Outcomes of the two random.sample calls: three distinct columns of row 0
\* and three distinct digits.
Seeds ==
    {[cells |-> <<1, 2, 3>>, values |-> <<8, 9, 7>>],
     [cells |-> <<0, 2, 3>>, values |-> <<7, 9, 8>>]}

TotalEmptiesArgs == {-5, 0, 1, 4, 5, 81, 82}

max_attempts == 81 * 3

EmptyBoard(e) == [r \in Indices |-> [c \in Indices |-> e]]

\* Mutant of total_empties_in_range: zero is accepted.
total_empties_in_range_zero(total_empties) ==
    0 <= total_empties /\ total_empties <= 81

\* The test `0 < total_empties <= 81` of generate.
total_empties_in_range(total_empties) ==
    0 < total_empties /\ total_empties <= 81

\* Mutant of seed_board: the values are zipped in reverse order.
seed_board_reversed(b, cells, values) ==
    [b EXCEPT ![0] = [c \in Indices |->
        IF \E i \in 1 .. 3 : cells[i] = c
        THEN values[4 - (CHOOSE i \in 1 .. 3 : cells[i] = c)]
        ELSE b[0][c]]]

\* for col, value in zip(cells, values): board[0][col] = value
seed_board(b, cells, values) ==
    [b EXCEPT ![0] = [c \in Indices |->
        IF \E i \in 1 .. 3 : cells[i] = c
        THEN values[CHOOSE i \in 1 .. 3 : cells[i] = c]
        ELSE b[0][c]]]

\* Mutant of carve: a pick of an empty cell counts as a removal.
carve_counts_every_pick(b, row, col, e, total_empties) ==
    [board |-> Put(b, <<row, col>>, e), total_empties |-> total_empties - 1]

\* Mutant of carve: a removal is not counted.
carve_never_counts(b, row, col, e, total_empties) ==
    [board |-> Put(b, <<row, col>>, e), total_empties |-> total_empties]

\* One iteration of the carving loop of generate (unique = False).
carve(b, row, col, e, total_empties) ==
    IF b[row][col] = e
    THEN [board |-> b, total_empties |-> total_empties]
    ELSE [board |-> Put(b, <<row, col>>, e),
          total_empties |-> total_empties - 1]

\* Mutant of create_unique_board_continues: a budget of 81 attempts.
create_unique_board_continues_81(empties, total_empties, attempts) ==
    empties < total_empties /\ attempts < 81

\* Mutant of create_unique_board_continues: one attempt more than the budget.
create_unique_board_continues_inclusive(empties, total_empties, attempts) ==
    empties < total_empties /\ attempts <= max_attempts

\* The loop condition of _create_unique_board.
create_unique_board_continues(empties, total_empties, attempts) ==
    empties < total_empties /\ attempts < max_attempts

\* `if solutions == 1: empties += 1, else: revert`, then attempts += 1.
create_unique_board_decide(cleared, row, col, backup_value, loc, solutions) ==
    IF solutions = 1
    THEN [board |-> cleared, empties |-> loc.empties + 1,
          attempts |-> loc.attempts + 1, solutions |-> solutions]
    ELSE [board |-> Put(cleared, <<row, col>>, backup_value),
          empties |-> loc.empties,
          attempts |-> loc.attempts + 1, solutions |-> solutions]

\* Mutant of create_unique_board_attempt: a removal is kept whenever the
\* puzzle still has a solution.
create_unique_board_attempt_keep_solvable(b, row, col, e, loc) ==
    IF b[row][col] = e
    THEN [board |-> b, empties |-> loc.empties,
          attempts |-> loc.attempts + 1, solutions |-> loc.solutions]
    ELSE create_unique_board_decide(Put(b, <<row, col>>, e), row, col,
                                    b[row][col], loc, 1)

\* Mutant of create_unique_board_attempt: the backup is read with row and
\* column exchanged.
create_unique_board_attempt_transposed(b, row, col, e, loc) ==
    IF b[row][col] = e
    THEN [board |-> b, empties |-> loc.empties,
          attempts |-> loc.attempts + 1, solutions |-> loc.solutions]
    ELSE create_unique_board_decide(Put(b, <<row, col>>, e), row, col,
             b[col][row], loc,
             count_solutions(Put(b, <<row, col>>, e), 2, e))

\* One iteration of the loop of _create_unique_board from the locals `loc`:
\* the grid and the locals after it.
create_unique_board_attempt(b, row, col, e, loc) ==
    IF b[row][col] = e
    THEN [board |-> b, empties |-> loc.empties,
          attempts |-> loc.attempts + 1, solutions |-> loc.solutions]
    ELSE create_unique_board_decide(Put(b, <<row, col>>, e), row, col,
             b[row][col], loc,
             count_solutions(Put(b, <<row, col>>, e), 2, e))

\* A call generate(total_empties, unique, empty_indicator); the grid of
\* sentinels is built on entry.
InitGen ==
    \E total_empties \in TotalEmptiesArgs, unique \in BOOLEAN,
       e \in EmptyIndicators :
        /\ board = EmptyBoard(e)
        /\ board0 = board
        /\ empty_indicator = e
        /\ op = "generate"
        /\ args = [total_empties |-> total_empties, unique |-> unique]
        /\ limit = MaxLimit
        /\ pc = "start"
        /\ stack = <<>>
        /\ ret = "none"
        /\ gen = NoRecord
        /\ window = NoRecord
        /\ self = NoRecord

\* total_empties is out of range: ValueError.
generate_raise ==
    /\ op = "generate"
    /\ pc = "start"
    /\ ~total_empties_in_range(args.total_empties)
    /\ pc' = "raised"
    /\ ret' = "ValueError"
    /\ UNCHANGED <<board, empty_indicator, limit, op, stack, board0, session>>

\* Three cells of row 0 are seeded and fill_board is called.
generate_seed ==
    /\ op = "generate"
    /\ pc = "start"
    /\ total_empties_in_range(args.total_empties)
    /\ \E seed \in Seeds :
        /\ board' = seed_board(board, seed.cells, seed.values)
        /\ gen' = seed
    /\ pc' = "call"
    /\ UNCHANGED <<empty_indicator, limit, op, stack, ret, board0, args,
                   self, window>>

\* fill_board has returned (its result is not looked at): the grid is copied
\* into solved_board and the carving loop is entered.
generate_solved ==
    /\ op = "generate"
    /\ pc = "return"
    /\ stack = <<>>
    /\ gen' = IF args.unique
              THEN [cells |-> gen.cells, values |-> gen.values,
                    solved_board |-> board,
                    total_empties |-> args.total_empties,
                    attempts |-> 0, empties |-> 0, solutions |-> "none"]
              ELSE [cells |-> gen.cells, values |-> gen.values,
                    solved_board |-> board,
                    total_empties |-> args.total_empties]
    /\ pc' = IF args.unique THEN "unique" ELSE "carve"
    /\ UNCHANGED <<board, empty_indicator, limit, op, stack, ret, board0,
                   args, self, window>>

\* One iteration of `while total_empties > 0`.
generate_carve ==
    /\ op = "generate"
    /\ pc = "carve"
    /\ gen.total_empties > 0
    /\ \E cell \in PickCells :
        \E c \in {carve(board, cell[1], cell[2], empty_indicator,
                        gen.total_empties)} :
            /\ board' = c.board
            /\ gen' = [gen EXCEPT !.total_empties = c.total_empties]
    /\ UNCHANGED <<empty_indicator, limit, op, pc, stack, ret, board0, args,
                   self, window>>

\* One iteration of the loop of _create_unique_board.
create_unique_board_step ==
    /\ op = "generate"
    /\ pc = "unique"
    /\ create_unique_board_continues(gen.empties, gen.total_empties,
                                     gen.attempts)
    /\ \E cell \in UniquePickCells(gen.attempts) :
        \E a \in {create_unique_board_attempt(board, cell[1], cell[2],
                                              empty_indicator, gen)} :
            /\ board' = a.board
            /\ gen' = [gen EXCEPT !.empties = a.empties,
                                  !.attempts = a.attempts,
                                  !.solutions = a.solutions]
    /\ UNCHANGED <<empty_indicator, limit, op, pc, stack, ret, board0, args,
                   self, window>>

\* The carving loop has ended: return board, solved_board.
generate_return ==
    /\ op = "generate"
    /\ \/ pc = "carve" /\ ~(gen.total_empties > 0)
       \/ /\ pc = "unique"
          /\ ~create_unique_board_continues(gen.empties, gen.total_empties,
                                            gen.attempts)
    /\ ret' = <<board, gen.solved_board>>
    /\ pc' = "done"
    /\ UNCHANGED <<board, empty_indicator, limit, op, stack, board0, session>>

NextGen ==
    \/ generate_raise
    \/ generate_seed
    \/ fill_board_call
    \/ fill_board_complete
    \/ fill_board_try
    \/ fill_board_exhausted
    \/ fill_board_resume
    \/ generate_solved
    \/ generate_carve
    \/ create_unique_board_step
    \/ generate_return

GenSpec == InitGen /\ [][NextGen]_vars

GenReturned == op = "generate" /\ pc = "done"

GenRaised == op = "generate" /\ pc = "raised"

Empties(b) == Cardinality(EmptyCells(b, empty_indicator))

\* The grid has exactly one solution: as count_solutions(grid, 2) tells it
\* and by enumeration of its legal completions.
OneSolution(b) ==
    /\ count_solutions(b, 2, empty_indicator) = 1
    /\ Cardinality(Completions(b, empty_indicator)) = 1

\* _create_unique_board is running or has run.
UniqueCarving == op = "generate" /\ args.unique /\ pc \in {"unique", "done"}

\* C13: generate raises the range error for every total_empties <= 0 and
\* every total_empties > 81 and for no total_empties in 1 .. 81; when it
\* raises, nothing was seeded, solved or carved and no pair is returned.
C13_RangeErrorFirst ==
    (op = "generate" /\ pc # "start") =>
        /\ (pc = "raised") <=> (args.total_empties \notin 1 .. 81)
        /\ (pc = "raised") =>
               /\ ret = "ValueError"
               /\ gen = NoRecord
               /\ window = NoRecord
               /\ stack = <<>>
               /\ board = EmptyBoard(empty_indicator)

\* C13 witness: the call with total_empties = 0 has raised.
C13_Witness == GenRaised /\ args.total_empties = 0

\* C14: with unique = false, the puzzle returned by generate holds exactly
\* total_empties sentinel cells and the solution holds none.
C14_ExactEmpties ==
    (GenReturned /\ ~args.unique) =>
        /\ Empties(ret[1]) = args.total_empties
        /\ Empties(ret[2]) = 0

\* C14 witness: a non-unique puzzle came back with four cells cleared, cell
\* (0, 0) not among them.
C14_Witness ==
    /\ GenReturned
    /\ ~args.unique
    /\ args.total_empties = 4
    /\ At(ret[1], PickList[1]) # empty_indicator

\* Carving changes no cell of the puzzle except to the sentinel or back to
\* the value of the solution, and leaves solved_board alone.
CarvingClearsOrRestores ==
    (op = "generate" /\ pc \in {"carve", "unique"}) =>
        /\ gen'.solved_board = gen.solved_board
        /\ \A p \in Cells :
               \/ At(board', p) = At(board, p)
               \/ At(board', p) = empty_indicator
               \/ At(board', p) = At(gen.solved_board, p)

\* Every non-empty cell of the puzzle equals the cell of solved_board.
PuzzleMatchesSolution ==
    (op = "generate" /\ pc \in {"carve", "unique", "done"}) =>
        \A p \in Cells :
            At(board, p) # empty_indicator =>
                At(board, p) = At(gen.solved_board, p)

\* C15: under either carving policy every non-empty puzzle cell equals the
\* solution cell at the same position, in the pair returned as during
\* carving; carving only clears puzzle cells or restores them, and never
\* changes the solution.
C15_PuzzlePairsSolution ==
    /\ [](PuzzleMatchesSolution
          /\ (GenReturned => ret = <<board, gen.solved_board>>))
    /\ [][CarvingClearsOrRestores]_vars

\* C15 witness: a removal was rejected and its cell holds the solution's
\* value again.
C15_Witness ==
    /\ UniqueCarving
    /\ gen.empties = 3
    /\ gen.attempts = 4
    /\ gen.solutions = 2
    /\ Empties(board) = 3

\* C16: for every seed fill_board returns True on the seeded grid, and the
\* solution generate returns is complete, legal and holds the seed values at
\* the seeded cells of row 0.
C16_SeedAlwaysSolved ==
    /\ (op = "generate" /\ pc = "return" /\ stack = <<>>) => ret = TRUE
    /\ GenReturned =>
           /\ Empties(ret[2]) = 0
           /\ NoRepeats(ret[2], empty_indicator)
           /\ \A i \in 1 .. 3 : ret[2][0][gen.cells[i]] = gen.values[i]

\* C16 witness: a solution was returned for the seed 7, 9, 8 at columns
\* 0, 2, 3.
C16_Witness ==
    /\ GenReturned
    /\ gen.cells = <<0, 2, 3>>
    /\ gen.values = <<7, 9, 8>>
    /\ ret[2][0][0] = 7

\* One carving attempt of _create_unique_board: an accepted removal leaves a
\* puzzle with exactly one solution, any other attempt leaves the puzzle as
\* it was.
AttemptKeepsUnique ==
    (op = "generate" /\ pc = "unique" /\ pc' = "unique") =>
        IF gen'.empties > gen.empties
        THEN OneSolution(board')
        ELSE board' = board

\* C17: with unique = true the puzzle has exactly one solution after every
\* carving attempt (an accepted removal keeps uniqueness, a rejected one
\* restores the cleared value), and so has the puzzle generate returns.
C17_UniqueThroughout ==
    /\ []((UniqueCarving /\ (pc = "done" \/ gen.attempts = 0)) =>
              OneSolution(board))
    /\ []((GenReturned /\ args.unique) => ret[1] = board)
    /\ [][AttemptKeepsUnique]_vars

\* C17 witness: the removal that would have given two solutions was
\* rejected, and the puzzle still has exactly one.
C17_Witness ==
    /\ UniqueCarving
    /\ pc = "unique"
    /\ gen.empties > 0
    /\ gen.solutions > 1
    /\ OneSolution(board)

AttemptCounts ==
    (op = "generate" /\ pc = "unique" /\ pc' = "unique") =>
        /\ gen.empties < gen.total_empties
        /\ gen.attempts < 243
        /\ gen'.attempts = gen.attempts + 1

\* C19: with unique = true carving runs at most 243 iterations, each one
\* counted; it stops once total_empties cells are empty and generate then
\* returns the pair, the puzzle with at most total_empties empty cells.
C19_BudgetBoundsCarving ==
    /\ [](UniqueCarving =>
              /\ gen.attempts <= 243
              /\ gen.empties = Empties(board)
              /\ gen.empties <= args.total_empties)
    /\ []((op = "generate" /\ args.unique /\ pc = "raised") =>
              args.total_empties \notin 1 .. 81)
    /\ [][AttemptCounts]_vars
    /\ [][(op = "generate" /\ pc = "unique" /\ pc' # "unique") =>
              /\ pc' = "done"
              /\ ret' = <<board, gen.solved_board>>
              /\ \/ gen.empties = gen.total_empties
                 \/ gen.attempts = 243]_vars

\* C19 witness: the loop stopped on total_empties before the budget ran out,
\* after at least one counted attempt that removed nothing.
C19_Witness ==
    /\ GenReturned
    /\ args.unique
    /\ gen.empties = args.total_empties
    /\ gen.attempts > gen.empties
    /\ gen.attempts < 243

----------------------------------------------------------------------------
\* sudoku_board.py: a SudokuBoard and the calls a player makes on it.

\* Bound: the puzzle of the model leaves out the first MaxBoardHoles cells of
\* HoleList.
MaxBoardHoles == 3

BoardHoles == {HoleList[i] : i \in 1 .. MaxBoardHoles}

\* The squares the calls of the model name: the fillable ones, two prefilled
\* ones (the first is the fourth corner of the rectangle of HoleList while
\* that is prefilled) and two outside the grid.
CallSquares ==
    BoardHoles \cup {HoleList[MaxBoardHoles + 1], <<2, 3>>, <<-1, 4>>, <<2, 9>>}

\* The values the calls of the model hand over: the two digits of the
\* rectangle, a digit that row 2 holds, and two values outside 1 .. 9.
CallValues == {0, 2, 4, 9, 10}

\* `0 <= row < self._rows and 0 <= col < self._columns`
in_board_range(row, col) ==
    0 <= row /\ row < GridSize /\ 0 <= col /\ col < GridSize

\* `1 <= value <= 9`
in_value_range(value) == 1 <= value /\ value <= 9

\* Mutant of board_is_valid_entry: prefilled squares are not protected.
board_is_valid_entry_unprotected(s, b, e, row, col, value) ==
    IF value = e /\ e = b[row][col] THEN FALSE
    ELSE is_valid_entry(b, row, col, value)

\* Mutant of board_is_valid_entry: the rules are not looked at.
board_is_valid_entry_any_digit(s, b, e, row, col, value) ==
    IF <<row, col>> \in s.prefilled_squares THEN FALSE
    ELSE IF value = e /\ e = b[row][col] THEN FALSE
    ELSE TRUE

\* SudokuBoard.is_valid_entry past its two range tests, on the instance with
\* fields s and current grid b.
board_is_valid_entry(s, b, e, row, col, value) ==
    IF <<row, col>> \in s.prefilled_squares THEN FALSE
    ELSE IF value = e /\ e = b[row][col] THEN FALSE
    ELSE is_valid_entry(b, row, col, value)

\* Mutant of remove: the list is left as it is.
remove_nothing(lst, square) == lst

\* list.remove(square) on a list that holds the square.
remove(lst, square) ==
    LET k == CHOOSE i \in 1 .. Len(lst) :
                 lst[i] = square /\ \A j \in 1 .. (i - 1) : lst[j] # square
    IN  SubSeq(lst, 1, k - 1) \o SubSeq(lst, k + 1, Len(lst))

\* The instance SudokuBoard(unsolved_board, solved_board, empty_indicator)
\* after __init__; board is its _board.
InitBoard ==
    \E e \in EmptyIndicators :
        /\ board = InputBoard(BoardHoles, NoOverwrite, e)
        /\ board0 = board
        /\ empty_indicator = e
        /\ self = [_unsolved_board |-> board,
                   _solved_board |-> solved_board,
                   prefilled_squares |-> {p \in Cells : At(board, p) # e},
                   player_fillable_squares |-> {p \in Cells : At(board, p) = e},
                   edited_squares |-> <<>>]
        /\ op = "__init__"
        /\ args = NoRecord
        /\ ret = "None"
        /\ pc = "ready"
        /\ stack = <<>>
        /\ limit = MaxLimit
        /\ gen = NoRecord
        /\ window = NoRecord

\* SudokuBoard.set_value past its two range tests, on the instance with
\* fields s and current grid b: the result, the grid and the fields after it.
set_value_in_range(s, b, e, row, col, value) ==
    IF board_is_valid_entry(s, b, e, row, col, value)
    THEN [ret |-> TRUE,
          board |-> Put(b, <<row, col>>, value),
          self |-> IF /\ ~In(<<row, col>>, s.edited_squares)
                      /\ s._unsolved_board[row][col] = e
                      /\ value # e
                   THEN [s EXCEPT !.edited_squares = Append(@, <<row, col>>)]
                   ELSE s]
    ELSE [ret |-> FALSE, board |-> b, self |-> s]

\* SudokuBoard.set_empty past its range test.
set_empty_in_range(s, b, e, row, col) ==
    IF In(<<row, col>>, s.edited_squares)
    THEN [ret |-> TRUE,
          board |-> Put(b, <<row, col>>, e),
          self |-> [s EXCEPT !.edited_squares = remove(@, <<row, col>>)]]
    ELSE [ret |-> FALSE, board |-> b, self |-> s]

\* set_value(row, col, value)
set_value ==
    /\ pc = "ready"
    /\ \E square \in CallSquares, value \in CallValues :
        LET row == square[1]
            col == square[2]
        IN  /\ op' = "set_value"
            /\ args' = [row |-> row, col |-> col, value |-> value]
            /\ IF ~in_board_range(row, col)
               THEN /\ ret' = "IndexError"
                    /\ UNCHANGED <<board, self>>
               ELSE IF ~in_value_range(value)
               THEN /\ ret' = "ValueError"
                    /\ UNCHANGED <<board, self>>
               ELSE \E r \in {set_value_in_range(self, board, empty_indicator,
                                                 row, col, value)} :
                        /\ ret' = r.ret
                        /\ board' = r.board
                        /\ self' = r.self
    /\ UNCHANGED <<empty_indicator, limit, pc, stack, board0, gen, window>>

\* set_empty(row, col)
set_empty ==
    /\ pc = "ready"
    /\ \E square \in CallSquares :
        LET row == square[1]
            col == square[2]
        IN  /\ op' = "set_empty"
            /\ args' = [row |-> row, col |-> col]
            /\ IF ~in_board_range(row, col)
               THEN /\ ret' = "IndexError"
                    /\ UNCHANGED <<board, self>>
               ELSE \E r \in {set_empty_in_range(self, board, empty_indicator,
                                                 row, col)} :
                        /\ ret' = r.ret
                        /\ board' = r.board
                        /\ self' = r.self
    /\ UNCHANGED <<empty_indicator, limit, pc, stack, board0, gen, window>>

\* reset_board()
reset_board ==
    /\ pc = "ready"
    /\ op' = "reset_board"
    /\ args' = NoRecord
    /\ board' = self._unsolved_board
    /\ self' = [self EXCEPT !.edited_squares = <<>>]
    /\ ret' = board'
    /\ UNCHANGED <<empty_indicator, limit, pc, stack, board0, gen, window>>

\* update_to_solved()
update_to_solved ==
    /\ pc = "ready"
    /\ op' = "update_to_solved"
    /\ args' = NoRecord
    /\ board' = self._solved_board
    /\ self' = [self EXCEPT !.edited_squares = <<>>]
    /\ ret' = "None"
    /\ UNCHANGED <<empty_indicator, limit, pc, stack, board0, gen, window>>

NextBoard ==
    \/ set_value
    \/ set_empty
    \/ reset_board
    \/ update_to_solved

BoardSpec == InitBoard /\ [][NextBoard]_vars

\* The square the call that was made last names is a prefilled one.
OnPrefilled ==
    /\ op \in {"set_value", "set_empty"}
    /\ <<args.row, args.col>> \in self.prefilled_squares

\* A call of set_value or set_empty on a prefilled square changes neither the
\* grid nor edited_squares, and returns False (set_value with a value outside
\* 1 .. 9 raises ValueError instead, as on every square).
PrefilledCallRefused ==
    OnPrefilled' =>
        /\ board' = board
        /\ self'.edited_squares = self.edited_squares
        /\ IF op' = "set_value" /\ ~in_value_range(args'.value)
           THEN ret' = "ValueError"
           ELSE ret' = FALSE

\* C20: after any sequence of set_value, set_empty, reset_board and
\* update_to_solved, every square that is non-empty in the initial puzzle holds
\* the value it had there; set_value and set_empty on such a square return
\* False and change neither the board nor edited_squares.
C20_PrefilledProtected ==
    /\ [](op \in {"__init__", "set_value", "set_empty", "reset_board",
                  "update_to_solved"} /\ pc = "ready" =>
              \A p \in Cells :
                  At(board0, p) # empty_indicator =>
                      At(board, p) = At(board0, p))
    /\ [][PrefilledCallRefused]_vars

\* C20 witness: set_value was refused on a prefilled square for a digit that
\* its row, column and square do not hold, after the player filled a square.
C20_Witness ==
    /\ OnPrefilled
    /\ op = "set_value"
    /\ in_value_range(args.value)
    /\ ret = FALSE
    /\ is_valid_entry(board, args.row, args.col, args.value)
    /\ self.edited_squares # <<>>

\* The squares of a list of squares.
Squares(lst) == {lst[i] : i \in 1 .. Len(lst)}

\* edited_squares holds no square twice, and only squares that are empty in
\* the initial puzzle and non-empty now.
EditedSquaresSound ==
    LET edited == self.edited_squares
    IN  /\ \A i, j \in 1 .. Len(edited) : edited[i] = edited[j] => i = j
        /\ \A p \in Squares(edited) :
               /\ p \in Cells
               /\ At(board0, p) = empty_indicator
               /\ At(board, p) # empty_indicator

\* A call set_empty(row, col) inside the grid returns True exactly when the
\* square is in edited_squares; it then empties the cell and takes the square
\* out of the list, and otherwise changes nothing.
SetEmptyOnEdited ==
    (op' = "set_empty" /\ in_board_range(args'.row, args'.col)) =>
        LET square == <<args'.row, args'.col>>
        IN  /\ ret' = In(square, self.edited_squares)
            /\ IF ret'
               THEN /\ board' = Put(board, square, empty_indicator)
                    /\ Squares(self'.edited_squares)
                           = Squares(self.edited_squares) \ {square}
                    /\ Len(self'.edited_squares)
                           = Len(self.edited_squares) - 1
               ELSE /\ board' = board
                    /\ self' = self

\* C21: after any sequence of set_value, set_empty, reset_board and
\* update_to_solved, edited_squares holds no square twice and only squares
\* that are player-fillable and currently non-empty; set_empty returns True
\* exactly when the square is in edited_squares, and then empties the cell and
\* removes the square from the list.
C21_EditedSquaresTracked ==
    /\ [](pc = "ready" => EditedSquaresSound)
    /\ [][SetEmptyOnEdited]_vars

\* C21 witness: set_empty returned True on the first of two edited squares,
\* and the other one is still listed.
C21_Witness ==
    /\ op = "set_empty"
    /\ in_board_range(args.row, args.col)
    /\ ret = TRUE
    /\ At(board, <<args.row, args.col>>) = empty_indicator
    /\ Len(self.edited_squares) = 1
    /\ At(board, self.edited_squares[1]) # empty_indicator

\* ---------------------------------------------------------------------------
\* SudokuBoard: the grids handed out to the caller.
\* ---------------------------------------------------------------------------

\* The cells and the value a caller writes into a grid it was handed
\* (board_copy[0][0] = 9 in the tests; the second cell is an empty one).
WriteCells == {<<0, 0>>, HoleList[1]}
WriteValues == {9}

\* The calls whose result is the list object self._board itself.
ReturnsOwnBoard == {"get_current_board", "reset_board"}

\* get_current_board(): return self._board
get_current_board ==
    /\ pc = "ready"
    /\ op' = "get_current_board"
    /\ args' = NoRecord
    /\ ret' = board
    /\ UNCHANGED <<board, self, empty_indicator, limit, pc, stack, board0, gen,
                   window>>

\* get_board_copy(): return copy.deepcopy(self._board)
get_board_copy ==
    /\ pc = "ready"
    /\ op' = "get_board_copy"
    /\ args' = NoRecord
    /\ ret' = board
    /\ UNCHANGED <<board, self, empty_indicator, limit, pc, stack, board0, gen,
                   window>>

\* The caller assigns to a cell of the grid the last call returned,
\* grid[row][col] = value.  When that grid is the object self._board, the
\* assignment is an assignment to self._board; a deep copy shares nothing.
returned_grid_write ==
    /\ pc = "ready"
    /\ op \in ReturnsOwnBoard \cup {"get_board_copy"}
    /\ \E square \in WriteCells : \E value \in WriteValues :
        /\ args' = [row |-> square[1], col |-> square[2], value |-> value]
        /\ ret' = Put(ret, square, value)
        /\ board' = IF op \in ReturnsOwnBoard THEN ret' ELSE board
    /\ UNCHANGED <<op, self, empty_indicator, limit, pc, stack, board0, gen,
                   window>>

NextGrids ==
    \/ set_value
    \/ set_empty
    \/ reset_board
    \/ update_to_solved
    \/ get_current_board
    \/ get_board_copy
    \/ returned_grid_write

GridsSpec == InitBoard /\ [][NextGrids]_vars

\* A step in which the caller writes into the grid that call o returned.
WritesGridOf(o) ==
    /\ op = o
    /\ op' = o
    /\ DOMAIN args' = {"row", "col", "value"}
    /\ ret' # ret

\* The SudokuBoard answers the same after the step as before it.
BoardUntouched ==
    /\ board' = board
    /\ self' = self
    /\ Cardinality(EmptyCells(board', empty_indicator))
           = Cardinality(EmptyCells(board, empty_indicator))

\* C22: get_current_board returns a copy of the current board: changing a cell
\* of the returned grid never changes the SudokuBoard's own state.
C22_CurrentBoardIsCopy == [][WritesGridOf("get_current_board") => BoardUntouched]_vars

\* The grid of get_board_copy is a copy: writing into it leaves the
\* SudokuBoard as it was.
BoardCopyIsCopy == [][WritesGridOf("get_board_copy") => BoardUntouched]_vars

\* ---------------------------------------------------------------------------
\* The searches on grids without repeated values.
\* ---------------------------------------------------------------------------

\* The call is one of the two searches and its grid had no repeated non-empty
\* value at entry.
SearchOnLegalGrid ==
    /\ op \in {"fill_board", "count_solutions"}
    /\ NoRepeats(board0, empty_indicator)

\* The cells that were non-empty at entry hold the value they had.
GivensKept ==
    \A p \in Cells :
        At(board0, p) # empty_indicator => At(board, p) = At(board0, p)

\* C23: during fill_board and count_solutions started on a grid whose
\* non-empty cells have no repeated value, every intermediate grid (after each
\* placement and after each revert) has no repeated non-empty value in any
\* row, column or box, and the cells non-empty at entry never change.
C23_SearchKeepsGridLegal ==
    SearchOnLegalGrid => (NoRepeats(board, empty_indicator) /\ GivensKept)

\* C23 witness: count_solutions counted a completion through the cell of the
\* frame on top, reverted the cell and has just placed the next digit in it.
C23_Witness ==
    /\ SearchOnLegalGrid
    /\ op = "count_solutions"
    /\ pc = "call"
    /\ stack # <<>>
    /\ Top.count >= 1
    /\ At(board, Top.cell) = Top.value
    /\ At(board0, Top.cell) = empty_indicator

\* C24: for every grid whose non-empty cells have no repeated value and every
\* limit >= 1, count_solutions(grid, limit) returns exactly the number of
\* legal completions when that number is below limit, and a value greater
\* than or equal to limit when limit or more completions exist (0 for a grid
\* with no completion).
C24_CountExactBelowLimit ==
    (Returned("count_solutions") /\ limit >= 1
        /\ NoRepeats(board0, empty_indicator)) =>
        \E n \in {Cardinality(Completions(board0, empty_indicator))} :
            IF n < limit THEN ret = n ELSE ret >= limit

\* C24 witness: a call with limit 2 on a grid with exactly one completion and
\* several empty cells returned.
C24_Witness ==
    /\ Returned("count_solutions")
    /\ limit = 2
    /\ NoRepeats(board0, empty_indicator)
    /\ Cardinality(EmptyCells(board0, empty_indicator)) >= 3
    /\ Cardinality(Completions(board0, empty_indicator)) = 1
    /\ ret = 1

\* The cells in row-major order, numbered from 0.
RowMajor(k) == <<k \div GridSize, k % GridSize>>

\* Grid g comes before grid h, or is h, when the cells are read in row-major
\* order: at the first cell where they differ g holds the smaller value.
LexLeq(g, h) ==
    \/ g = h
    \/ \E k \in 0 .. (GridSize * GridSize - 1) :
          /\ At(g, RowMajor(k)) < At(h, RowMajor(k))
          /\ \A j \in 0 .. (k - 1) : At(g, RowMajor(j)) = At(h, RowMajor(j))

\* C25: when fill_board returns true on a grid whose non-empty cells have no
\* repeated value, the filled grid is the lexicographically smallest legal
\* completion of the input, cells read in row-major order.
C25_FillIsSmallestCompletion ==
    (Returned("fill_board") /\ ret = TRUE
        /\ NoRepeats(board0, empty_indicator)) =>
        \E all \in {Completions(board0, empty_indicator)} :
            /\ board \in all
            /\ \A g \in all : LexLeq(board, g)

\* C25 witness: fill_board returned true on a grid with several legal
\* completions, and the grid it filled is not the one the input was cut from.
C25_Witness ==
    /\ Returned("fill_board")
    /\ ret = TRUE
    /\ NoRepeats(board0, empty_indicator)
    /\ Cardinality(Completions(board0, empty_indicator)) >= 2
    /\ board # solved_board

\* ---------------------------------------------------------------------------
\* The carving loop of generate with unique = False, under fairness.
\* ---------------------------------------------------------------------------

\* The numbers of empty cells asked for that the picks of the model can reach.
CarveTotals == {n \in TotalEmptiesArgs : 1 <= n /\ n <= MaxPicks}

\* generate(total_empties, False, e) at its call of fill_board: the range
\* test has passed and three cells of row 0 are seeded.
InitCarve ==
    \E total_empties \in CarveTotals, e \in EmptyIndicators, seed \in Seeds :
        /\ board = seed_board(EmptyBoard(e), seed.cells, seed.values)
        /\ board0 = EmptyBoard(e)
        /\ empty_indicator = e
        /\ op = "generate"
        /\ args = [total_empties |-> total_empties, unique |-> FALSE]
        /\ limit = MaxLimit
        /\ pc = "call"
        /\ stack = <<>>
        /\ ret = NoResult("generate")
        /\ gen = seed
        /\ window = NoRecord
        /\ self = NoRecord

\* The steps of the program itself: fill_board and the copy of its result.
SolveStep ==
    \/ fill_board_call
    \/ fill_board_complete
    \/ fill_board_try
    \/ fill_board_exhausted
    \/ fill_board_resume
    \/ generate_solved

NextCarve ==
    \/ SolveStep
    \/ generate_carve

\* The interpreter always takes the next step of the program.  An iteration
\* of the carving loop changes the state only when its pick is a non-empty
\* cell, so weak fairness of generate_carve says that such a pick eventually
\* comes as long as the loop runs.
FairCarve ==
    /\ InitCarve
    /\ [][NextCarve]_vars
    /\ WF_vars(SolveStep)
    /\ WF_vars(generate_carve)

\* The carving loop is running.
InCarve == op = "generate" /\ pc = "carve"

\* `while total_empties > 0` has ended.
CarveDone == InCarve /\ gen.total_empties = 0

\* An iteration whose pick is an empty cell leaves grid and counter as they
\* are, so that the same iteration can follow.
EmptyPickRetried ==
    \A cell \in PickCells :
        At(board, cell) = empty_indicator =>
            carve(board, cell[1], cell[2], empty_indicator, gen.total_empties)
                = [board |-> board, total_empties |-> gen.total_empties]

\* C26: with unique = false the carving loop of generate has no attempt
\* budget: a pick of an already-empty cell changes nothing and is retried, and
\* under the fairness assumption that a non-empty cell is eventually picked
\* the loop terminates for every total_empties.
C26_CarvingTerminatesWhenFair ==
    /\ [](InCarve => EmptyPickRetried)
    /\ <>CarveDone

\* C26 witness: the loop has removed cells and still has some to remove, and
\* a pick of one of the cells it emptied leaves the state as it is: without
\* the fairness assumption such picks can follow each other forever.
C26_Witness ==
    /\ InCarve
    /\ gen.total_empties > 0
    /\ gen.total_empties < args.total_empties
    /\ \E cell \in PickCells :
          /\ At(board, cell) = empty_indicator
          /\ carve(board, cell[1], cell[2], empty_indicator,
                   gen.total_empties)
               = [board |-> board, total_empties |-> gen.total_empties]

\* ---------------------------------------------------------------------------
\* SudokuBoard from its construction on.
\* ---------------------------------------------------------------------------

\* sudoku_validator.is_valid_board as a function of the grid: every non-empty
\* cell, blanked for the test, accepts its own value.  (The cells tested
\* before are restored when a cell is tested.)
is_valid_board(b, e) ==
    \A k \in 0 .. (GridSize * GridSize - 1) :
        LET row == k \div GridSize
            col == k % GridSize
        IN  b[row][col] = e
                \/ is_valid_entry(Put(b, <<row, col>>, e), row, col, b[row][col])

\* The step form and the function form of is_valid_board agree.
ValidatorFormsAgree ==
    Returned("is_valid_board") => ret = is_valid_board(board0, empty_indicator)

\* SudokuBoard.total_empty_squares(board)
total_empty_squares(b, e) == Cardinality({p \in Cells : At(b, p) = e})

\* _validate_input_boards passes: the grid is valid, the solved grid has no
\* empty cell, and every value is the empty indicator or in 1 .. 9.
validate_input_boards(b, board_name, e) ==
    /\ is_valid_board(b, e)
    /\ board_name = "SolvedBoard" => total_empty_squares(b, e) = 0
    /\ \A p \in Cells : At(b, p) = e \/ At(b, p) \in 1 .. 9

\* _is_solved_version passes: the solved grid agrees with every non-empty
\* cell of the unsolved one.
is_solved_version(unsolved_board, solved, e) ==
    \A p \in Cells :
        At(unsolved_board, p) = e \/ At(unsolved_board, p) = At(solved, p)

\* The arguments of SudokuBoard(unsolved_board, solved_board, e): the puzzle
\* of the model with some of its holes, and possibly one cell overwritten.
InitNewBoard ==
    \E holes \in SUBSET BoardHoles, ow \in Overwrites, e \in EmptyIndicators :
        /\ board = InputBoard(holes, ow, e)
        /\ board0 = board
        /\ empty_indicator = e
        /\ self = NoRecord
        /\ op = "SudokuBoard"
        /\ args = NoRecord
        /\ ret = "None"
        /\ pc = "new"
        /\ stack = <<>>
        /\ limit = MaxLimit
        /\ gen = NoRecord
        /\ window = NoRecord

\* SudokuBoard.__init__: the three validations, then the fields.
SudokuBoard_init ==
    /\ pc = "new"
    /\ op' = "__init__"
    /\ IF /\ validate_input_boards(board, "UnsolvedBoard", empty_indicator)
          /\ validate_input_boards(solved_board, "SolvedBoard", empty_indicator)
          /\ is_solved_version(board, solved_board, empty_indicator)
       THEN /\ self' = [_unsolved_board |-> board,
                        _solved_board |-> solved_board,
                        prefilled_squares |->
                            {p \in Cells : At(board, p) # empty_indicator},
                        player_fillable_squares |->
                            {p \in Cells : At(board, p) = empty_indicator},
                        edited_squares |-> <<>>]
            /\ pc' = "ready"
            /\ ret' = "None"
       ELSE /\ pc' = "raised"
            /\ ret' = "ValueError"
            /\ UNCHANGED self
    /\ UNCHANGED <<board, empty_indicator, limit, stack, board0, args, gen,
                   window>>

NextNewBoard ==
    \/ SudokuBoard_init
    \/ set_value
    \/ set_empty
    \/ reset_board
    \/ update_to_solved

NewBoardSpec == InitNewBoard /\ [][NextNewBoard]_vars

\* The step is a call of set_value that raises or returns False.
SetValueFails ==
    /\ op' = "set_value"
    /\ (in_board_range(args'.row, args'.col) /\ in_value_range(args'.value))
           => ret' = FALSE

\* C27: after construction and after any sequence of set_value, set_empty,
\* reset_board and update_to_solved calls, failing and raising ones included,
\* the current board has no repeated non-empty value in any row, column or
\* box; a set_value that returns False or raises leaves the board and
\* edited_squares unchanged.
C27_BoardStaysLegal ==
    /\ [](pc = "ready" => NoRepeats(board, empty_indicator))
    /\ [][SetValueFails => (board' = board /\ self' = self)]_vars

\* C27 witness: after the player filled a square, set_value returned False
\* for a digit on a player-fillable square, which the rules refuse.
C27_Witness ==
    /\ pc = "ready"
    /\ op = "set_value"
    /\ in_board_range(args.row, args.col)
    /\ in_value_range(args.value)
    /\ ret = FALSE
    /\ <<args.row, args.col>> \in self.player_fillable_squares
    /\ self.edited_squares # <<>>
    /\ board # board0

\* ---------------------------------------------------------------------------
\* sudoku.py: the hints of MainWindow and the ShowHint worker.
\* ---------------------------------------------------------------------------

MaxHintHoles == 4

\* The digits of the keys the player presses in the model.
KeyValues == {2, 4, 9}

\* The cells the player selects: the empty cells of the puzzle and a
\* prefilled one.
SelectSquares == {HoleList[i] : i \in 1 .. MaxHintHoles} \cup {<<2, 3>>}

\* The tuple insert_hint is given when there is no hint.
NoHint == <<0, 0, 0>>

\* has_one_solution(): count_solutions(self.get_board_copy()) == 1, with the
\* defaults limit = 2 and empty_indicator = 0 of count_solutions.
has_one_solution(b) == count_solutions(b, 2, 0) = 1

\* The tuples get_hint() can return; random.choice picks the square.
get_hint(s, b, e) ==
    IF total_empty_squares(b, e) = 0 THEN {NoHint}
    ELSE LET empty_squares == {p \in s.player_fillable_squares :
                                   ~In(p, s.edited_squares)}
         IN  IF empty_squares = {} THEN {NoHint}
             ELSE {<<s._solved_board[p[1]][p[2]], p[1], p[2]>> :
                       p \in empty_squares}

\* update_hints(): one hint less, never below 0.
update_hints(hints) == IF hints - 1 < 0 THEN 0 ELSE hints - 1

\* is_game_completed() on the window w with the current grid b: a full and
\* valid grid ends the game.
is_game_completed(w, b, e) ==
    IF total_empty_squares(b, e) > 0 THEN w
    ELSE IF is_valid_board(b, e) THEN [w EXCEPT !.game_playing = FALSE]
    ELSE w

\* insert_hint(value, row, col) with h = (value, row, col): the window, the
\* grid and the fields of the SudokuBoard after it.  A value outside 1 .. 9
\* returns before getting_a_hint is touched.
insert_hint(w, s, b, e, h) ==
    IF h[1] \notin 1 .. 9
    THEN [window |-> [w EXCEPT !.hint = h], board |-> b, self |-> s]
    ELSE LET r == set_value_in_range(s, b, e, h[2], h[3], h[1])
         IN  [window |->
                 [(IF r.ret
                   THEN is_game_completed(
                            [w EXCEPT !.hints = update_hints(@)], r.board, e)
                   ELSE w) EXCEPT !.hint = h, !.getting_a_hint = FALSE],
              board |-> r.board,
              self |-> r.self]

\* The window after new_game: a SudokuBoard on a puzzle with one solution
\* (MaxHintHoles - 1 cells emptied) or with two (MaxHintHoles).  hint holds
\* the arguments of the last insert_hint; signals the hint_signal emissions
\* not yet delivered; emitted those of the worker's current or last run;
\* thread_filled what fill_board makes of the worker's copy of thread_board,
\* which no one else reads or writes.
InitHint ==
    \E n \in {MaxHintHoles - 1, MaxHintHoles} :
        /\ board = InputBoard({HoleList[i] : i \in 1 .. n}, NoOverwrite, 0)
        /\ board0 = board
        /\ empty_indicator = 0
        /\ self = [_unsolved_board |-> board,
                   _solved_board |-> solved_board,
                   prefilled_squares |-> {p \in Cells : At(board, p) # 0},
                   player_fillable_squares |-> {p \in Cells : At(board, p) = 0},
                   edited_squares |-> <<>>]
        /\ window = [game_playing |-> TRUE,
                     getting_a_hint |-> FALSE,
                     hints |-> 3,
                     thread |-> "none",
                     thread_board |-> board,
                     thread_filled |-> [ok |-> FALSE, board |-> board],
                     signals |-> <<>>,
                     emitted |-> <<>>,
                     hint |-> NoHint]
        /\ op = "new_game"
        /\ args = NoRecord
        /\ ret = "None"
        /\ pc = "ready"
        /\ stack = <<>>
        /\ limit = MaxLimit
        /\ gen = NoRecord

\* No handler may act on the game: `not game_playing or getting_a_hint`.
Blocked == ~window.game_playing \/ window.getting_a_hint

\* update_button_text(num) on the selected cell.
update_button_text ==
    /\ op' = "update_button_text"
    /\ \E square \in SelectSquares, num \in KeyValues :
        IF Blocked \/ square \in self.prefilled_squares
        THEN UNCHANGED <<board, self, window>>
        ELSE \E r \in {set_value_in_range(self, board, empty_indicator,
                                          square[1], square[2], num)} :
                /\ board' = r.board
                /\ self' = r.self
                /\ window' = IF r.ret
                             THEN is_game_completed(window, r.board,
                                                    empty_indicator)
                             ELSE window
    /\ UNCHANGED <<empty_indicator, limit, pc, stack, ret, board0, args, gen>>

\* undo_last_entry()
undo_last_entry ==
    /\ op' = "undo_last_entry"
    /\ IF Blocked \/ self.edited_squares = <<>>
       THEN UNCHANGED <<board, self>>
       ELSE \E square \in {self.edited_squares[Len(self.edited_squares)]} :
            \E r \in {set_empty_in_range(self, board, empty_indicator,
                                         square[1], square[2])} :
                /\ board' = r.board
                /\ self' = r.self
    /\ UNCHANGED <<empty_indicator, limit, pc, stack, ret, board0, args, gen,
                   window>>

\* erase_selected_value() on the selected cell.
erase_selected_value ==
    /\ op' = "erase_selected_value"
    /\ \E square \in SelectSquares :
        IF Blocked \/ ~In(square, self.edited_squares)
        THEN UNCHANGED <<board, self>>
        ELSE \E r \in {set_empty_in_range(self, board, empty_indicator,
                                          square[1], square[2])} :
                /\ board' = r.board
                /\ self' = r.self
    /\ UNCHANGED <<empty_indicator, limit, pc, stack, ret, board0, args, gen,
                   window>>

\* show_solution()
show_solution ==
    /\ op' = "show_solution"
    /\ IF window.getting_a_hint
       THEN UNCHANGED <<board, self, window>>
       ELSE /\ board' = self._solved_board
            /\ self' = [self EXCEPT !.edited_squares = <<>>]
            /\ window' = [window EXCEPT !.game_playing = FALSE]
    /\ UNCHANGED <<empty_indicator, limit, pc, stack, ret, board0, args, gen>>

\* reset_game()
reset_game ==
    /\ op' = "reset_game"
    /\ board' = self._unsolved_board
    /\ self' = [self EXCEPT !.edited_squares = <<>>]
    /\ window' = [window EXCEPT !.hints = 3, !.game_playing = TRUE]
    /\ UNCHANGED <<empty_indicator, limit, pc, stack, ret, board0, args, gen>>

\* show_hint(): the direct branch calls insert_hint at once, the other one
\* starts a ShowHint thread on a copy of the board.
show_hint ==
    /\ op' = "show_hint"
    /\ IF \/ Blocked
          \/ total_empty_squares(board, empty_indicator) = 0
          \/ window.hints <= 0
       THEN UNCHANGED <<board, self, window>>
       ELSE IF has_one_solution(board)
       THEN \E h \in get_hint(self, board, empty_indicator) :
            \E r \in {insert_hint([window EXCEPT !.getting_a_hint = TRUE],
                                  self, board, empty_indicator, h)} :
                /\ window' = r.window
                /\ board' = r.board
                /\ self' = r.self
       ELSE /\ window' = [window EXCEPT !.getting_a_hint = TRUE,
                                        !.thread = "started",
                                        !.thread_board = board,
                                        !.thread_filled =
                                            fill_board(board, empty_indicator),
                                        !.emitted = <<>>]
            /\ UNCHANGED <<board, self>>
    /\ UNCHANGED <<empty_indicator, limit, pc, stack, ret, board0, args, gen>>

\* What one run of ShowHint emits on grid b when random.choice picks `cell`
\* and fill_board makes `filled` of the copy: (0, 0, 0) without an empty
\* cell, the solved value of the cell when fill_board succeeded, and nothing
\* when it failed.
ShowHint_emits(b, e, cell, filled) ==
    IF EmptyCells(b, e) = {} THEN <<NoHint>>
    ELSE IF filled.ok
    THEN <<<<At(filled.board, cell), cell[1], cell[2]>>>>
    ELSE <<>>

\* ShowHint.run() in the worker thread, from start to quit.
ShowHint_run ==
    /\ window.thread = "started"
    /\ op' = "ShowHint.run"
    /\ \E cell \in EmptyCells(window.thread_board, empty_indicator)
                       \cup {get_empty(window.thread_board, empty_indicator)} :
       \E out \in {ShowHint_emits(window.thread_board, empty_indicator, cell,
                                   window.thread_filled)} :
            window' = [window EXCEPT !.thread = "finished",
                                     !.emitted = @ \o out,
                                     !.signals = @ \o out]
    /\ UNCHANGED <<board, self, empty_indicator, limit, pc, stack, ret, board0,
                   args, gen>>

\* The event loop of the main thread delivers a queued hint_signal to the
\* slot insert_hint.
hint_signal ==
    /\ window.signals # <<>>
    /\ op' = "insert_hint"
    /\ \E r \in {insert_hint([window EXCEPT !.signals = Tail(@)], self, board,
                             empty_indicator, Head(window.signals))} :
        /\ window' = r.window
        /\ board' = r.board
        /\ self' = r.self
    /\ UNCHANGED <<empty_indicator, limit, pc, stack, ret, board0, args, gen>>

NextHint ==
    \/ update_button_text
    \/ undo_last_entry
    \/ erase_selected_value
    \/ show_solution
    \/ reset_game
    \/ show_hint
    \/ ShowHint_run
    \/ hint_signal

\* The operating system runs a started thread, and the event loop of the
\* main thread delivers every queued signal; what the player does is left
\* to the player.
HintSpec ==
    /\ InitHint
    /\ [][NextHint]_vars
    /\ WF_vars(ShowHint_run)
    /\ WF_vars(hint_signal)

\* The step is a call of show_hint that gets past its early returns and
\* finds has_one_solution() true.
DirectHintStep ==
    /\ op' = "show_hint"
    /\ ~Blocked
    /\ total_empty_squares(board, empty_indicator) > 0
    /\ window.hints > 0
    /\ has_one_solution(board)

\* The hint handed to insert_hint holds the value of its cell in grid g; it
\* was inserted, and the grid still has a completion.
HintFrom(g) ==
    LET h == window'.hint
    IN  /\ h[1] = g[h[2]][h[3]]
        /\ board' = Put(board, <<h[2], h[3]>>, h[1])
        /\ Completions(board', empty_indicator) # {}

\* C28: whenever the current board has exactly one completion and show_hint
\* takes the direct branch, the hint of get_hint gives the value the cell has
\* in that completion, so inserting it with set_value succeeds and keeps the
\* board solvable.
C28_DirectHintFromCompletion ==
    [][DirectHintStep =>
          \A g \in Completions(board, empty_indicator) : HintFrom(g)]_vars

\* C29: each run of the ShowHint worker emits hint_signal exactly once: the
\* solved value, row and column of an empty cell when the board copy can be
\* solved, and (0, 0, 0) when it has no empty cell or cannot be solved.
C29_RunEmitsOnce ==
    window.thread = "finished" =>
        /\ Len(window.emitted) = 1
        /\ \E filled \in {fill_board(window.thread_board, empty_indicator)} :
            LET h == window.emitted[1]
            IN  IF /\ EmptyCells(window.thread_board, empty_indicator) # {}
                   /\ filled.ok
                THEN /\ At(window.thread_board, <<h[2], h[3]>>)
                            = empty_indicator
                     /\ h[1] = At(filled.board, <<h[2], h[3]>>)
                ELSE h = NoHint

\* C30: once show_hint sets getting_a_hint to true, the flag is eventually
\* set back to false on every path, so that number entry, undo, erase,
\* further hints and show_solution are never blocked forever.
C30_HintFlagCleared ==
    [](window.getting_a_hint => <>(~window.getting_a_hint))

====
